---------------------------- MODULE Spec2Model ----------------------------
(***************************************************************************)
(* Model of the cineai client-side synchronization store                   *)
(* (useProjectStore, src/unnamed/part_000).                                *)
(*                                                                         *)
(* The store is one record, written only through zustand's set(), which    *)
(* merges a partial record into it.  Every invocation of an async store    *)
(* action is a task; the JavaScript event loop runs one synchronous        *)
(* segment at a time, so every action below is one such segment: the       *)
(* code from the call (or from the resumption after an await) up to the    *)
(* next await or to the return.                                            *)
(*                                                                         *)
(* The pages that use the store are modelled with it: Dashboard            *)
(* (src/src/pages/Dashboard.tsx) and AIMonitor (src/src/pages/AIMonitor.tsx)*)
(* with their React state, effects and interval timers, and the            *)
(* categorizer of EmotionPerformance (src/src/pages/EmotionPerformance.tsx).*)
(* Spec is the store called freely; DashboardSpec, AIMonitorSpec and       *)
(* ViewSpec are the pages calling it; EmotionSpec is the categorizer.      *)
(***************************************************************************)
EXTENDS Integers, Sequences, FiniteSets, TLC

\* ------------------------------------------------------------------ bounds
\* Invocations of store actions in one behaviour.
MaxCalls == 2
\* Callbacks of Dashboard's interval timer in one behaviour.
MaxTicks == 1
\* Requests (listTakes and getProcessingStatus) of AIMonitor in one behaviour.
MaxFetches == 5
\* Takes in a list given to the EmotionPerformance categorizer.
MaxTakes == 2

\* ------------------------------------------------------- program constants
\* fetchDashboardStats: async (retries = 3)
DefaultRetries == 3
\* setTimeout(resolve, 2000)
RetryDelay == 2000
\* Dashboard: setInterval(() => fetchDashboardStats(), 3000)
DashboardInterval == 3000
\* AIMonitor: setInterval(fetchTakes, 5000) and setInterval(pollStatus, 3000)
LibraryInterval == 5000
StatusInterval == 3000

\* ------------------------------------------------------------------ values
\* null is the empty tuple and a present value v the 1-tuple <<v>>.
Null == <<>>
Some(v) == <<v>>

ExhaustedMessage == "Failed to fetch dashboard statistics. Please refresh the page."
UnknownError == "Unknown error"

\* What a rejected request can throw: an Error with a message, an Error
\* with the empty message, and a value that is not an Error.
Failures ==
  { [isError |-> TRUE,  message |-> "Network Error"],
    [isError |-> TRUE,  message |-> ""],
    [isError |-> FALSE, message |-> "rejected"] }

\* The HTTP client's response envelope { data: T }.
Envelope(data) == [data |-> data]

\* api.projects.getCurrent(): the description may be absent; created_at is a
\* timestamp, a calendar date and a time of day.
ProjectResponses ==
  { Envelope([ id |-> 1, name |-> "Pilot", description |-> Null,
               created_at |-> [date |-> "1/5/2024", time |-> "10:00"] ]),
    Envelope([ id |-> 2, name |-> "Reel", description |-> Some("day 2"),
               created_at |-> [date |-> "1/6/2024", time |-> "09:30"] ]) }

\* api.timeline.get(), api.projects.getDashboardStats(),
\* api.processing.getStatus(takeId) and api.media.upload(file).
TimelineResponses == { Envelope("timelineA") }
StatsResponses == { Envelope("statsA"), Envelope("statsB") }
TakeIds == {1, 2}
StatusResponses(takeId) == { Envelope([take |-> takeId, status |-> "processing"]) }
Files == {"clip.mp4"}
UploadResponses(file) == { Envelope([uploaded |-> file]) }
ProgressValues == {50}

\* By how much the clock may have advanced since it was last read: two
\* readings may fall in the same millisecond.
ClockSteps == {0, 1}

\* fetchDashboardStats(retries): explicit arguments, a negative one included,
\* and the default of a call without argument.
RetryArgs == {-1, 0, DefaultRetries}

\* The actions that write loading and error.
LoadingOps == {"fetchProject", "fetchTimeline", "uploadMedia", "fetchDashboardStats"}

\* ------------------------------------------------------------------- state
VARIABLES
  store,   \* the zustand state record
  tasks,   \* one record per invocation of a store action, in call order
  now,     \* the latest reading of the wall clock (new Date())
  writer,  \* history: the invocation whose set() last wrote loading (0: none)
  dashboard, \* the Dashboard page: its React state, its timers, the document
  monitor,   \* the AIMonitor page: its React state, effects, timers, requests
  emotion    \* the EmotionPerformance page: its takes and their categories

vars == <<store, tasks, now, writer, dashboard, monitor, emotion>>

\* The pages' state, which the store's own actions never touch.
views == <<dashboard, monitor, emotion>>

\* create<ProjectState>((set, get) => ({ ... })): the initial state.
InitialState ==
  [ projectId          |-> Null,
    projectName        |-> "Loading...",
    description        |-> "",
    shootDate          |-> "",
    cameras            |-> <<>>,
    totalFootage       |-> "0h 0m 0s",
    processingProgress |-> 0,
    aiConfidenceHealth |-> 0,
    loading            |-> FALSE,
    error              |-> Null,
    issues             |-> [focus |-> 0, audio |-> 0, continuity |-> 0, narrative |-> 0],
    dashboardStats     |-> Null,
    lastUpdated        |-> Null,
    timeline           |-> Null ]

\* zustand's set(partial): a shallow merge of partial into the state.
merge(state, partial) == partial @@ state

\* set(partial) called by invocation t.
set(t, partial) ==
  /\ store' = merge(store, partial)
  /\ writer' = IF "loading" \in DOMAIN partial THEN t ELSE writer

\* err instanceof Error ? err.message : 'Unknown error'
ErrorMessage(err) == IF err.isError THEN err.message ELSE UnknownError

\* project.description || "": an absent or empty description reads "".
DescriptionOf(project) ==
  IF project.description = Null \/ project.description = Some("")
    THEN ""
    ELSE project.description[1]

\* new Date(project.created_at).toLocaleDateString(): the display string of
\* the timestamp's calendar date, without its time of day.
LocaleDateString(created_at) == created_at.date

\* ------------------------------------------------------------------- takes
\* A take of the library, { id, ai_metadata?, ... }.  An object is a record
\* whose absent properties are Null; ai_metadata itself may be absent.
Take(id, ai_metadata) == [id |-> id, ai_metadata |-> ai_metadata]

\* ai_metadata = { emotion?, audio?: { behavioral_markers?:
\*                 { hesitation_duration?, laughter_detected? } } }
Meta(emo, audio) == [emotion |-> emo, audio |-> audio]
Audio(pause, laughter) ==
  Some([behavioral_markers |->
          Some([hesitation_duration |-> pause, laughter_detected |-> laughter])])
EmptyObject == Meta(Null, Null)

\* Object.keys(o): the properties that are present.
ObjectKeys(o) == {k \in DOMAIN o : o[k] # Null}

\* ------------------------------------------------ EmotionPerformance values
\* Durations are in tenths of a second: the code's 1.0 is 10.
HesitationThreshold == 10

Categories ==
  { "Hesitation & Pauses", "Laughter & Humor", "Emotional Peaks",
    "Analytical & Technical", "Standard Dialogue" }

\* take.ai_metadata || {}, meta.audio || {}, audio.behavioral_markers || {}
MetaOf(take) == IF take.ai_metadata = Null THEN EmptyObject ELSE take.ai_metadata[1]
AudioOf(meta) == IF meta.audio = Null THEN [behavioral_markers |-> Null] ELSE meta.audio[1]
BehaviorsOf(audio) ==
  IF audio.behavioral_markers = Null
    THEN [hesitation_duration |-> Null, laughter_detected |-> Null]
    ELSE audio.behavioral_markers[1]

\* behaviors.hesitation_duration || 0
PauseOf(take) ==
  LET d == BehaviorsOf(AudioOf(MetaOf(take))).hesitation_duration
  IN  IF d = Null \/ d = Some(0) THEN 0 ELSE d[1]

\* behaviors.laughter_detected || false
LaughterOf(take) ==
  LET l == BehaviorsOf(AudioOf(MetaOf(take))).laughter_detected
  IN  IF l = Null \/ l = Some(FALSE) THEN FALSE ELSE l[1]

\* meta.emotion || 'neutral'
EmotionOf(take) ==
  LET e == MetaOf(take).emotion
  IN  IF e = Null \/ e = Some("") THEN "neutral" ELSE e[1]

\* The object the memo starts from: every category empty.
EmptyCategories == [c \in Categories |-> <<>>]

push(categories, c, take) == [categories EXCEPT ![c] = Append(@, take)]

CategorizeTake_AnalyticalIsStandard(categories, take) ==
  LET pause    == PauseOf(take)
      laughter == LaughterOf(take)
      emo      == EmotionOf(take)
      c1 == IF pause > HesitationThreshold
              THEN push(categories, "Hesitation & Pauses", take) ELSE categories
      c2 == IF laughter THEN push(c1, "Laughter & Humor", take) ELSE c1
      c3 == IF emo = "analytical"
              THEN push(c2, "Analytical & Technical", take) ELSE c2
      c4 == IF emo # "neutral" /\ emo # "unknown" /\ emo # "analytical"
              THEN push(c3, "Emotional Peaks", take) ELSE c3
      c5 == IF ~laughter /\ pause <= HesitationThreshold
                 /\ (emo = "neutral" \/ emo = "unknown" \/ emo = "analytical")
              THEN push(c4, "Standard Dialogue", take)
              ELSE c4
  IN  c5

CategorizeTake_StandardIgnoresPause(categories, take) ==
  LET pause    == PauseOf(take)
      laughter == LaughterOf(take)
      emo      == EmotionOf(take)
      c1 == IF pause > HesitationThreshold
              THEN push(categories, "Hesitation & Pauses", take) ELSE categories
      c2 == IF laughter THEN push(c1, "Laughter & Humor", take) ELSE c1
      c3 == IF emo = "analytical"
              THEN push(c2, "Analytical & Technical", take) ELSE c2
      c4 == IF emo # "neutral" /\ emo # "unknown" /\ emo # "analytical"
              THEN push(c3, "Emotional Peaks", take) ELSE c3
      c5 == IF ~laughter
                 /\ (emo = "neutral" \/ emo = "unknown" \/ emo = "analytical")
              THEN IF emo # "analytical"
                     THEN push(c4, "Standard Dialogue", take) ELSE c4
              ELSE c4
  IN  c5

CategorizeTake_PeakUnlessLaughter(categories, take) ==
  LET pause    == PauseOf(take)
      laughter == LaughterOf(take)
      emo      == EmotionOf(take)
      c1 == IF pause > HesitationThreshold
              THEN push(categories, "Hesitation & Pauses", take) ELSE categories
      c2 == IF laughter THEN push(c1, "Laughter & Humor", take) ELSE c1
      c3 == IF emo = "analytical"
              THEN push(c2, "Analytical & Technical", take) ELSE c2
      c4 == IF ~laughter /\ emo # "neutral" /\ emo # "unknown" /\ emo # "analytical"
              THEN push(c3, "Emotional Peaks", take) ELSE c3
      c5 == IF ~laughter /\ pause <= HesitationThreshold
                 /\ (emo = "neutral" \/ emo = "unknown" \/ emo = "analytical")
              THEN IF emo # "analytical"
                     THEN push(c4, "Standard Dialogue", take) ELSE c4
              ELSE c4
  IN  c5

CategorizeTake_NoStandard(categories, take) ==
  LET pause    == PauseOf(take)
      laughter == LaughterOf(take)
      emo      == EmotionOf(take)
      c1 == IF pause > HesitationThreshold
              THEN push(categories, "Hesitation & Pauses", take) ELSE categories
      c2 == IF laughter THEN push(c1, "Laughter & Humor", take) ELSE c1
      c3 == IF emo = "analytical"
              THEN push(c2, "Analytical & Technical", take) ELSE c2
      c4 == IF emo # "neutral" /\ emo # "unknown" /\ emo # "analytical"
              THEN push(c3, "Emotional Peaks", take) ELSE c3
  IN  c4

\* The body of takes.forEach: the five tests, in the code's order.
CategorizeTake(categories, take) ==
  LET pause    == PauseOf(take)
      laughter == LaughterOf(take)
      emo      == EmotionOf(take)
      c1 == IF pause > HesitationThreshold
              THEN push(categories, "Hesitation & Pauses", take) ELSE categories
      c2 == IF laughter THEN push(c1, "Laughter & Humor", take) ELSE c1
      c3 == IF emo = "analytical"
              THEN push(c2, "Analytical & Technical", take) ELSE c2
      c4 == IF emo # "neutral" /\ emo # "unknown" /\ emo # "analytical"
              THEN push(c3, "Emotional Peaks", take) ELSE c3
      c5 == IF ~laughter /\ pause <= HesitationThreshold
                 /\ (emo = "neutral" \/ emo = "unknown" \/ emo = "analytical")
              THEN IF emo # "analytical"
                     THEN push(c4, "Standard Dialogue", take) ELSE c4
              ELSE c4
  IN  c5

\* The memo: takes.forEach over the list, from the empty categories.
RECURSIVE CategorizeFrom(_, _)
CategorizeFrom(categories, takes) ==
  IF takes = <<>>
    THEN categories
    ELSE CategorizeFrom(CategorizeTake(categories, Head(takes)), Tail(takes))

Categorize(takes) == CategorizeFrom(EmptyCategories, takes)

\* EmotionPerformance as constructed: useState([]), useState(true); its
\* mount effect has its request for the takes outstanding.
EmotionPerformanceInitial ==
  [ takes              |-> <<>>,
    isLoading          |-> TRUE,
    categorizedResults |-> Categorize(<<>>) ]

\* ------------------------------------------------------------ views' state
\* AIMonitor before it is mounted: useState([]), useState(null),
\* useState(null), useState(false).
AIMonitorInitial ==
  [ phase        |-> "unmounted",  \* unmounted | mounted | gone
    urlTakeId    |-> Null,         \* the takeId of window.location.search
    takes        |-> <<>>,
    selectedTake |-> Null,
    statusData   |-> Null,
    isPolling    |-> FALSE,
    runs         |-> 0,            \* runs of the two polling effects so far
    live         |-> {},           \* the effect runs whose isMounted is true
    timers       |-> {},           \* the interval timers that are alive
    library      |-> Null,         \* the library effect's cleanup: [run, interval]
    status       |-> Null,         \* the status effect's cleanup, if it returned one
    fetches      |-> <<>>,         \* listTakes requests in flight
    listed       |-> 0,            \* listTakes requests issued so far
    polls        |-> {} ]          \* getProcessingStatus invocations by run

\* Dashboard before it is mounted: useState(true); no effect has run and
\* the document is visible.
DashboardInitial ==
  [ phase     |-> "unmounted",  \* unmounted | mounted | gone
    isPolling |-> TRUE,
    hidden    |-> FALSE,        \* document.hidden
    interval  |-> Null,         \* the handle the polling effect's cleanup holds
    timers    |-> {},           \* the interval timers that are alive
    ticks     |-> 0,            \* timer callbacks run so far
    paused    |-> FALSE ]       \* history: the button's last press paused

\* An invocation as it is when its action is called.
NewTask(op, arg) ==
  [ op       |-> op,
    pc       |-> "awaiting",   \* awaiting | delay | done
    arg      |-> arg,          \* retries / takeId / file / progress, as passed
    retries  |-> arg,          \* fetchDashboardStats: the current call's retries
    attempts |-> 1,            \* requests issued
    fails    |-> 0,            \* requests that failed
    delays   |-> 0,            \* setTimeout waits started
    waited   |-> 0,            \* their total duration
    ret      |-> Null,         \* Some(value returned), once done
    raised   |-> Null ]        \* Some(failure re-raised to the caller), once done

Awaiting(t, op) == t \in DOMAIN tasks /\ tasks[t].op = op /\ tasks[t].pc = "awaiting"

Init ==
  /\ store = InitialState
  /\ tasks = <<>>
  /\ now = 0
  /\ writer = 0
  /\ dashboard = DashboardInitial
  /\ monitor = AIMonitorInitial
  /\ emotion = EmotionPerformanceInitial

\* The next invocation's index.
Next_t == Len(tasks) + 1

Invoke(op, arg) ==
  /\ Len(tasks) < MaxCalls
  /\ tasks' = Append(tasks, NewTask(op, arg))

\* The request succeeded and the invocation returns ret.
Finish(t, ret) ==
  tasks' = [tasks EXCEPT ![t].pc = "done", ![t].ret = ret]

\* The request failed and the invocation returns ret, or raises.
Fail(t, ret, raised) ==
  tasks' = [tasks EXCEPT ![t].pc = "done", ![t].fails = @ + 1,
                         ![t].ret = ret, ![t].raised = raised]

\* ------------------------------------------------------------ fetchProject
fetchProject_Call_KeepsError ==
  /\ Invoke("fetchProject", 0)
  /\ set(Next_t, [loading |-> TRUE])
  /\ UNCHANGED now

fetchProject_Call ==
  /\ Invoke("fetchProject", 0)
  /\ set(Next_t, [loading |-> TRUE, error |-> Null])
  /\ UNCHANGED now

fetchProject_Success_ClearsError(t, response) ==
  /\ Awaiting(t, "fetchProject")
  /\ LET project == response.data
     IN  set(t, [ projectId   |-> Some(project.id),
                  projectName |-> project.name,
                  description |-> DescriptionOf(project),
                  shootDate   |-> LocaleDateString(project.created_at),
                  error       |-> Null,
                  loading     |-> FALSE ])
  /\ Finish(t, Null)
  /\ UNCHANGED now

fetchProject_Success(t, response) ==
  /\ Awaiting(t, "fetchProject")
  /\ LET project == response.data
     IN  set(t, [ projectId   |-> Some(project.id),
                  projectName |-> project.name,
                  description |-> DescriptionOf(project),
                  shootDate   |-> LocaleDateString(project.created_at),
                  loading     |-> FALSE ])
  /\ Finish(t, Null)
  /\ UNCHANGED now

fetchProject_Failure_RawMessage(t, err) ==
  /\ Awaiting(t, "fetchProject")
  /\ set(t, [error |-> Some(err.message), loading |-> FALSE])
  /\ Fail(t, Null, Null)
  /\ UNCHANGED now

fetchProject_Failure(t, err) ==
  /\ Awaiting(t, "fetchProject")
  /\ set(t, [error |-> Some(ErrorMessage(err)), loading |-> FALSE])
  /\ Fail(t, Null, Null)
  /\ UNCHANGED now

\* ----------------------------------------------------------- fetchTimeline
fetchTimeline_Call ==
  /\ Invoke("fetchTimeline", 0)
  /\ set(Next_t, [loading |-> TRUE, error |-> Null])
  /\ UNCHANGED now

fetchTimeline_Success_StaysLoading(t, response) ==
  /\ Awaiting(t, "fetchTimeline")
  /\ set(t, [timeline |-> Some(response.data)])
  /\ Finish(t, Null)
  /\ UNCHANGED now

fetchTimeline_Success(t, response) ==
  /\ Awaiting(t, "fetchTimeline")
  /\ set(t, [timeline |-> Some(response.data), loading |-> FALSE])
  /\ Finish(t, Null)
  /\ UNCHANGED now

fetchTimeline_Failure_DropsTimeline(t, err) ==
  /\ Awaiting(t, "fetchTimeline")
  /\ set(t, [timeline |-> Null, error |-> Some(ErrorMessage(err)), loading |-> FALSE])
  /\ Fail(t, Null, Null)
  /\ UNCHANGED now

fetchTimeline_Failure(t, err) ==
  /\ Awaiting(t, "fetchTimeline")
  /\ set(t, [error |-> Some(ErrorMessage(err)), loading |-> FALSE])
  /\ Fail(t, Null, Null)
  /\ UNCHANGED now

\* ----------------------------------------------------- getProcessingStatus
getProcessingStatus_Call(takeId) ==
  /\ Invoke("getProcessingStatus", takeId)
  /\ UNCHANGED <<store, now, writer>>

\* return response.data
getProcessingStatus_Success(t, response) ==
  /\ Awaiting(t, "getProcessingStatus")
  /\ Finish(t, Some(response.data))
  /\ UNCHANGED <<store, now, writer>>

getProcessingStatus_Failure_SetsError(t, err) ==
  /\ Awaiting(t, "getProcessingStatus")
  /\ set(t, [error |-> Some(ErrorMessage(err)), loading |-> FALSE])
  /\ Fail(t, Null, Null)
  /\ UNCHANGED now

\* console.error(...); return null
getProcessingStatus_Failure(t, err) ==
  /\ Awaiting(t, "getProcessingStatus")
  /\ Fail(t, Null, Null)
  /\ UNCHANGED <<store, now, writer>>

\* --------------------------------------------------- setProcessingProgress
\* Synchronous: the invocation is over when it returns.
setProcessingProgress(progress) ==
  /\ Len(tasks) < MaxCalls
  /\ tasks' = Append(tasks, [NewTask("setProcessingProgress", progress)
                               EXCEPT !.pc = "done", !.attempts = 0])
  /\ set(Next_t, [processingProgress |-> progress])
  /\ UNCHANGED now

\* ------------------------------------------------------------- uploadMedia
uploadMedia_Call(file) ==
  /\ Invoke("uploadMedia", file)
  /\ set(Next_t, [loading |-> TRUE, error |-> Null])
  /\ UNCHANGED now

\* set({ loading: false }); return response.data
uploadMedia_Success(t, response) ==
  /\ Awaiting(t, "uploadMedia")
  /\ set(t, [loading |-> FALSE])
  /\ Finish(t, Some(response.data))
  /\ UNCHANGED now

uploadMedia_Failure_OnlyThrows(t, err) ==
  /\ Awaiting(t, "uploadMedia")
  /\ Fail(t, Null, Some(err))
  /\ UNCHANGED <<store, now, writer>>

uploadMedia_Failure_Swallows(t, err) ==
  /\ Awaiting(t, "uploadMedia")
  /\ set(t, [error |-> Some(ErrorMessage(err)), loading |-> FALSE])
  /\ Fail(t, Null, Null)
  /\ UNCHANGED now

\* set({ error: ..., loading: false }); throw err
uploadMedia_Failure(t, err) ==
  /\ Awaiting(t, "uploadMedia")
  /\ set(t, [error |-> Some(ErrorMessage(err)), loading |-> FALSE])
  /\ Fail(t, Null, Some(err))
  /\ UNCHANGED now

\* ----------------------------------------------------- fetchDashboardStats
\* A call without argument, fetchDashboardStats(), or with one.
fetchDashboardStats_Call(retries) ==
  /\ Invoke("fetchDashboardStats", retries)
  /\ set(Next_t, [loading |-> TRUE, error |-> Null])
  /\ UNCHANGED now

fetchDashboardStats_Success_DropsStats(t, response, date) ==
  /\ Awaiting(t, "fetchDashboardStats")
  /\ now' = date
  /\ set(t, [ lastUpdated |-> Some(date), loading |-> FALSE ])
  /\ Finish(t, Null)

fetchDashboardStats_Success_KeepsDate(t, response, date) ==
  /\ Awaiting(t, "fetchDashboardStats")
  /\ now' = date
  /\ set(t, [ dashboardStats |-> Some(response.data), loading |-> FALSE ])
  /\ Finish(t, Null)

fetchDashboardStats_Success_DropsStale(t, response, date) ==
  /\ Awaiting(t, "fetchDashboardStats")
  /\ now' = date
  /\ IF \E u \in DOMAIN tasks :
          u > t /\ tasks[u].op = "fetchDashboardStats" /\ tasks[u].pc = "done"
       THEN set(t, [ loading |-> FALSE ])
       ELSE set(t, [ dashboardStats |-> Some(response.data),
                     lastUpdated    |-> Some(date),
                     loading        |-> FALSE ])
  /\ Finish(t, Null)

fetchDashboardStats_Success(t, response, date) ==
  /\ Awaiting(t, "fetchDashboardStats")
  /\ now' = date
  /\ set(t, [ dashboardStats |-> Some(response.data),
              lastUpdated    |-> Some(date),
              loading        |-> FALSE ])
  /\ Finish(t, Null)

\* The delay of 2000 ms is started: await new Promise(... setTimeout ...).
StartDelay(t) ==
  tasks' = [tasks EXCEPT ![t].pc = "delay",
                         ![t].fails = @ + 1,
                         ![t].delays = @ + 1,
                         ![t].waited = @ + RetryDelay]

fetchDashboardStats_Failure_OneRetryShort(t, err) ==
  /\ Awaiting(t, "fetchDashboardStats")
  /\ IF tasks[t].retries > 1
       THEN /\ StartDelay(t)
            /\ UNCHANGED <<store, writer>>
       ELSE /\ set(t, [error |-> Some(ExhaustedMessage), loading |-> FALSE])
            /\ Fail(t, Null, Null)
  /\ UNCHANGED now

fetchDashboardStats_Failure_ResetsLoading(t, err) ==
  /\ Awaiting(t, "fetchDashboardStats")
  /\ IF tasks[t].retries > 0
       THEN /\ StartDelay(t)
            /\ set(t, [loading |-> FALSE])
       ELSE /\ set(t, [error |-> Some(ExhaustedMessage), loading |-> FALSE])
            /\ Fail(t, Null, Null)
  /\ UNCHANGED now

\* catch: with retries > 0 start the wait; otherwise the final failure.
fetchDashboardStats_Failure_RetriesUnlessZero(t, err) ==
  /\ Awaiting(t, "fetchDashboardStats")
  /\ IF tasks[t].retries # 0
       THEN /\ StartDelay(t)
            /\ UNCHANGED <<store, writer>>
       ELSE /\ set(t, [error |-> Some(ExhaustedMessage), loading |-> FALSE])
            /\ Fail(t, Null, Null)
  /\ UNCHANGED now

fetchDashboardStats_Failure(t, err) ==
  /\ Awaiting(t, "fetchDashboardStats")
  /\ IF tasks[t].retries > 0
       THEN /\ StartDelay(t)
            /\ UNCHANGED <<store, writer>>
       ELSE /\ set(t, [error |-> Some(ExhaustedMessage), loading |-> FALSE])
            /\ Fail(t, Null, Null)
  /\ UNCHANGED now

fetchDashboardStats_Retry_KeepsError(t) ==
  /\ t \in DOMAIN tasks
  /\ tasks[t].op = "fetchDashboardStats"
  /\ tasks[t].pc = "delay"
  /\ set(t, [loading |-> TRUE])
  /\ tasks' = [tasks EXCEPT ![t].pc = "awaiting",
                            ![t].retries = @ - 1,
                            ![t].attempts = @ + 1]
  /\ UNCHANGED now

\* The wait is over: return get().fetchDashboardStats(retries - 1), whose
\* head sets loading and error again and issues the next request.
fetchDashboardStats_Retry_WhilePolling(t) ==
  /\ t \in DOMAIN tasks
  /\ tasks[t].op = "fetchDashboardStats"
  /\ tasks[t].pc = "delay"
  /\ dashboard.phase = "unmounted" \/ dashboard.interval # Null
  /\ set(t, [loading |-> TRUE, error |-> Null])
  /\ tasks' = [tasks EXCEPT ![t].pc = "awaiting",
                            ![t].retries = @ - 1,
                            ![t].attempts = @ + 1]
  /\ UNCHANGED now

fetchDashboardStats_Retry(t) ==
  /\ t \in DOMAIN tasks
  /\ tasks[t].op = "fetchDashboardStats"
  /\ tasks[t].pc = "delay"
  /\ set(t, [loading |-> TRUE, error |-> Null])
  /\ tasks' = [tasks EXCEPT ![t].pc = "awaiting",
                            ![t].retries = @ - 1,
                            ![t].attempts = @ + 1]
  /\ UNCHANGED now

\* -------------------------------------------------------------------- Next
Calls == 1 .. MaxCalls

Next ==
  \/ fetchProject_Call /\ UNCHANGED views
  \/ \E t \in Calls, r \in ProjectResponses : fetchProject_Success(t, r) /\ UNCHANGED views
  \/ \E t \in Calls, e \in Failures : fetchProject_Failure(t, e) /\ UNCHANGED views
  \/ fetchTimeline_Call /\ UNCHANGED views
  \/ \E t \in Calls, r \in TimelineResponses : fetchTimeline_Success(t, r) /\ UNCHANGED views
  \/ \E t \in Calls, e \in Failures : fetchTimeline_Failure(t, e) /\ UNCHANGED views
  \/ \E k \in TakeIds : getProcessingStatus_Call(k) /\ UNCHANGED views
  \/ \E t \in DOMAIN tasks : \E r \in StatusResponses(tasks[t].arg) :
        getProcessingStatus_Success(t, r)
        /\ UNCHANGED views
  \/ \E t \in Calls, e \in Failures : getProcessingStatus_Failure(t, e) /\ UNCHANGED views
  \/ \E p \in ProgressValues : setProcessingProgress(p) /\ UNCHANGED views
  \/ \E f \in Files : uploadMedia_Call(f) /\ UNCHANGED views
  \/ \E t \in DOMAIN tasks : \E r \in UploadResponses(tasks[t].arg) :
        uploadMedia_Success(t, r)
        /\ UNCHANGED views
  \/ \E t \in Calls, e \in Failures : uploadMedia_Failure(t, e) /\ UNCHANGED views
  \/ \E r \in RetryArgs : fetchDashboardStats_Call(r) /\ UNCHANGED views
  \/ \E t \in Calls, r \in StatsResponses, d \in ClockSteps :
        fetchDashboardStats_Success(t, r, now + d)
        /\ UNCHANGED views
  \/ \E t \in Calls, e \in Failures : fetchDashboardStats_Failure(t, e) /\ UNCHANGED views
  \/ \E t \in Calls : fetchDashboardStats_Retry(t) /\ UNCHANGED views

Spec == Init /\ [][Next]_vars

\* ------------------------------------------------------------ what a step did
\* The actions above, read off a step: which invocation it moved and how.
Succeeded(t) ==
  /\ t \in DOMAIN tasks
  /\ tasks[t].pc = "awaiting"
  /\ tasks'[t].pc = "done"
  /\ tasks'[t].fails = tasks[t].fails

Failed(t) ==
  /\ t \in DOMAIN tasks
  /\ tasks'[t].fails = tasks[t].fails + 1

FailedFinally(t) == Failed(t) /\ tasks'[t].pc = "done"

\* A request was issued: by a call, or by the retry after a wait.
Started(t) ==
  /\ t \in DOMAIN tasks'
  /\ tasks'[t].pc = "awaiting"
  /\ (t \notin DOMAIN tasks \/ tasks[t].pc = "delay")

\* The same of a state: how an invocation that is over ended.
HasSucceeded(t) ==
  t \in DOMAIN tasks /\ tasks[t].pc = "done" /\ tasks[t].fails < tasks[t].attempts

HasFailed(t) ==
  t \in DOMAIN tasks /\ tasks[t].pc = "done" /\ tasks[t].fails = tasks[t].attempts
                     /\ tasks[t].attempts > 0

IsOp(t, op) == t \in DOMAIN tasks /\ tasks[t].op = op

\* ---------------------------------------------------------------------- C1
\* C1: a call fetchDashboardStats(N), N >= 0, whose requests all fail: its
\* k-th failure is the failure of its k-th request; for k <= N it starts the
\* k-th wait of 2000 and writes nothing to the store; for k = N + 1 it ends
\* the call after N + 1 requests and N waits and sets error to the fixed
\* message; an invocation that is over issues no further request.
C1_Theorem ==
  [][ /\ \A t \in DOMAIN tasks :
           (IsOp(t, "fetchDashboardStats") /\ tasks[t].arg >= 0 /\ Failed(t)) =>
             LET N == tasks[t].arg
                 k == tasks'[t].fails
             IN  /\ tasks'[t].attempts = k
                 /\ IF k = N + 1
                      THEN /\ tasks'[t].pc = "done"
                           /\ tasks'[t].delays = N
                           /\ tasks'[t].waited = N * 2000
                           /\ store'.error = Some("Failed to fetch dashboard statistics. Please refresh the page.")
                      ELSE /\ k <= N
                           /\ tasks'[t].pc = "delay"
                           /\ tasks'[t].delays = k
                           /\ tasks'[t].waited = k * 2000
                           /\ store' = store
      /\ \A t \in DOMAIN tasks :
           (IsOp(t, "fetchDashboardStats") /\ tasks[t].pc = "delay") =>
             tasks'[t].attempts \in {tasks[t].attempts, tasks[t].delays + 1}
      /\ \A t \in DOMAIN tasks : tasks[t].pc = "done" => tasks'[t] = tasks[t]
    ]_vars

\* fetchDashboardStats() with the default of 3 retries has failed 4 times.
C1_Witness ==
  \E t \in DOMAIN tasks :
    /\ IsOp(t, "fetchDashboardStats") /\ tasks[t].arg = 3
    /\ HasFailed(t) /\ tasks[t].attempts = 4 /\ tasks[t].delays = 3
    /\ writer = t
    /\ store.error = Some(ExhaustedMessage)

\* ---------------------------------------------------------------------- C2
\* C2: when a request of fetchDashboardStats(N) succeeds after k failed
\* ones, the call ends after exactly k + 1 requests (k <= N for N >= 0) with
\* dashboardStats the response's data and loading = false, and with
\* error = null when no other invocation wrote loading or error since the
\* request was issued (as when no other action runs).
C2_Theorem ==
  [][ \A t \in DOMAIN tasks :
        (IsOp(t, "fetchDashboardStats") /\ Succeeded(t)) =>
          LET k == tasks[t].fails
          IN  /\ tasks'[t].attempts = k + 1
              /\ (tasks[t].arg >= 0 => k <= tasks[t].arg)
              /\ \A r \in StatsResponses, d \in ClockSteps :
                   fetchDashboardStats_Success(t, r, now + d) =>
                     store'.dashboardStats = Some(r.data)
              /\ store'.loading = FALSE
              /\ (writer = t => store'.error = Null)
    ]_vars

\* retries = 3, two failures, then the third request succeeded.
C2_Witness ==
  \E t \in DOMAIN tasks :
    /\ IsOp(t, "fetchDashboardStats") /\ tasks[t].arg = 3
    /\ HasSucceeded(t) /\ tasks[t].fails = 2 /\ tasks[t].attempts = 3
    /\ writer = t
    /\ store.dashboardStats # Null /\ store.error = Null /\ ~store.loading

\* ---------------------------------------------------------------------- C3
\* C3 as stated: whenever a fetchDashboardStats retry sequence waits out
\* its delay, loading is true, whatever other actions did meanwhile.
C3_Original ==
  \A t \in DOMAIN tasks :
    (IsOp(t, "fetchDashboardStats") /\ tasks[t].pc = "delay") => store.loading

\* C3 amended: whenever a fetchDashboardStats retry sequence waits out its
\* delay and no other invocation has written loading since the sequence's
\* latest request was issued, loading is true.
C3_Theorem ==
  \A t \in DOMAIN tasks :
    (IsOp(t, "fetchDashboardStats") /\ tasks[t].pc = "delay" /\ writer = t)
      => store.loading

\* A retry sequence waits, loading still true, while another action runs.
C3_Witness ==
  \E t, u \in DOMAIN tasks :
    /\ IsOp(t, "fetchDashboardStats") /\ tasks[t].pc = "delay" /\ writer = t
    /\ u # t /\ tasks[u].op \in LoadingOps /\ tasks[u].pc = "awaiting"
    /\ store.loading

C5_Theorem ==
  [][ \A t \in DOMAIN tasks :
        FailedFinally(t) =>
          IF tasks[t].op \in LoadingOps
            THEN store'.loading = FALSE /\ store'.error # Null
            ELSE tasks[t].op = "getProcessingStatus" /\ store'.error = store.error
    ]_vars

\* A status query failed after an upload had failed: the error stands.
C5_Witness ==
  \E t, u \in DOMAIN tasks :
    /\ IsOp(t, "getProcessingStatus") /\ HasFailed(t)
    /\ IsOp(u, "uploadMedia") /\ HasFailed(u)
    /\ ~store.loading /\ store.error # Null

\* ---------------------------------------------------------------------- C6
\* C6: loading = true only while fetchProject, fetchTimeline, uploadMedia
\* or fetchDashboardStats is in flight (called, not yet resolved).
C6_Theorem ==
  store.loading =>
    \E t \in DOMAIN tasks : tasks[t].op \in LoadingOps /\ tasks[t].pc # "done"

\* loading is true with one action resolved and another in flight.
C6_Witness ==
  \E t, u \in DOMAIN tasks :
    /\ tasks[t].op \in LoadingOps /\ tasks[t].pc = "done"
    /\ tasks[u].op \in LoadingOps /\ tasks[u].pc # "done"
    /\ store.loading

\* ---------------------------------------------------------------------- C7
\* C7: every request issued by fetchProject, fetchTimeline, uploadMedia or
\* fetchDashboardStats (each retry included) leaves error = null, and error
\* goes from null to non-null only in the terminal failure of one of them.
C7_Theorem ==
  [][ /\ \A t \in DOMAIN tasks' :
           (Started(t) /\ tasks'[t].op \in LoadingOps) => store'.error = Null
      /\ (store.error = Null /\ store'.error # Null) =>
           \E t \in DOMAIN tasks : tasks[t].op \in LoadingOps /\ FailedFinally(t)
    ]_vars

\* A retry of fetchDashboardStats was issued and another action has failed.
C7_Witness ==
  \E t, u \in DOMAIN tasks :
    /\ IsOp(t, "fetchDashboardStats") /\ tasks[t].pc = "awaiting"
    /\ tasks[t].attempts >= 2 /\ writer = t
    /\ tasks[u].op \in LoadingOps /\ HasFailed(u)
    /\ store.error = Null

C9_Theorem ==
  [][ \A t \in DOMAIN tasks :
        Failed(t) =>
          \A k \in DOMAIN store \ {"loading", "error"} : store'[k] = store[k]
    ]_vars

\* fetchProject has failed with a project cached by an earlier fetch.
C9_Witness ==
  \E t \in DOMAIN tasks :
    /\ IsOp(t, "fetchProject") /\ HasFailed(t) /\ writer = t
    /\ store.projectId # Null /\ store.error # Null

\* --------------------------------------------------------------------- C10
\* C10: no step of a getProcessingStatus invocation (call, success,
\* failure) changes the store; the invocation returns the response's data
\* on success and null on failure, and never raises.
C10_Theorem ==
  [][ \A t \in DOMAIN tasks' :
        (tasks'[t].op = "getProcessingStatus"
           /\ (t \notin DOMAIN tasks \/ tasks'[t] # tasks[t])) =>
          /\ store' = store
          /\ tasks'[t].raised = Null
          /\ tasks'[t].pc = "done" =>
               IF tasks'[t].fails = 0
                 THEN tasks'[t].ret \in {Some(r.data) : r \in StatusResponses(tasks'[t].arg)}
                 ELSE tasks'[t].ret = Null
    ]_vars

\* A status query has failed while a fetch is in flight and loading is true.
C10_Witness ==
  \E t \in DOMAIN tasks :
    /\ IsOp(t, "getProcessingStatus") /\ HasFailed(t) /\ tasks[t].ret = Null
    /\ store.loading /\ store.error = Null


\* --------------------------------------------------------------------- C11
\* C11: uploadMedia(file) sets loading = true and error = null when it
\* issues its request; on success it sets loading = false and returns the
\* response's data; on failure it sets error (the Error's message, else
\* 'Unknown error') and loading = false and, in the same step, re-raises
\* that same failure to its caller.
C11_Theorem ==
  [][ /\ \A t \in DOMAIN tasks' :
           (Started(t) /\ tasks'[t].op = "uploadMedia") =>
             (store'.loading = TRUE /\ store'.error = Null)
      /\ \A t \in DOMAIN tasks :
           (IsOp(t, "uploadMedia") /\ Succeeded(t)) =>
             /\ store'.loading = FALSE
             /\ tasks'[t].raised = Null
             /\ tasks'[t].ret \in {Some(r.data) : r \in UploadResponses(tasks[t].arg)}
      /\ \A t \in DOMAIN tasks :
           (IsOp(t, "uploadMedia") /\ Failed(t)) =>
             /\ store'.loading = FALSE
             /\ tasks'[t].pc = "done" /\ tasks'[t].ret = Null
             /\ \A e \in Failures :
                  uploadMedia_Failure(t, e) =>
                    /\ tasks'[t].raised = Some(e)
                    /\ store'.error = Some(IF e.isError THEN e.message ELSE "Unknown error")
    ]_vars

\* An upload has failed with a value that is not an Error and re-raised it.
C11_Witness ==
  \E t \in DOMAIN tasks :
    /\ IsOp(t, "uploadMedia") /\ HasFailed(t) /\ writer = t
    /\ tasks[t].raised = Some([isError |-> FALSE, message |-> "rejected"])
    /\ ~store.loading /\ store.error = Some("Unknown error")

\* --------------------------------------------------------------------- C12
\* C12: dashboardStats and lastUpdated change only in a successful
\* fetchDashboardStats step, which writes both, lastUpdated being the clock
\* reading of that step; so one is null exactly when the other is, and
\* lastUpdated is the time of the latest success.
C12_Theorem ==
  [][ /\ (store'.dashboardStats # store.dashboardStats
            \/ store'.lastUpdated # store.lastUpdated) =>
           \E t \in DOMAIN tasks : IsOp(t, "fetchDashboardStats") /\ Succeeded(t)
      /\ \A t \in DOMAIN tasks :
           (IsOp(t, "fetchDashboardStats") /\ Succeeded(t)) =>
             /\ store'.dashboardStats # Null
             /\ store'.lastUpdated = Some(now')
             /\ now' \in {now + d : d \in ClockSteps}
      /\ (store.dashboardStats = Null) <=> (store.lastUpdated = Null)
      /\ (store'.dashboardStats = Null) <=> (store'.lastUpdated = Null)
      /\ store'.lastUpdated # Null => store'.lastUpdated = Some(now')
    ]_vars

\* A second success has replaced the snapshot and its time.
C12_Witness ==
  \E t, u \in DOMAIN tasks :
    /\ t # u
    /\ IsOp(t, "fetchDashboardStats") /\ HasSucceeded(t)
    /\ IsOp(u, "fetchDashboardStats") /\ HasSucceeded(u)
    /\ store.dashboardStats = Some("statsB") /\ store.lastUpdated = Some(1)


\* ======================================================= EmotionPerformance
\* What the library can hold in a take's ai_metadata.emotion: absent, the
\* empty string, the three plain labels and a marked emotion.
Emotions ==
  { Null, Some(""), Some("neutral"), Some("unknown"), Some("analytical"),
    Some("happy") }

\* ai_metadata.audio: absent, without markers' values, and with a pause of
\* 1.0 or 1.5 seconds and laughter detected or not.
AudioSamples ==
  { Null, Audio(Null, Null) }
    \cup { Audio(Some(p), Some(l)) : p \in {10, 15}, l \in BOOLEAN }

MetaSamples ==
  { Null } \cup { Some(Meta(e, a)) : e \in Emotions, a \in AudioSamples }

TakeSamples == { Take(i, m) : i \in 1 .. MaxTakes, m \in MetaSamples }

\* The lists api.media.listTakes() can answer with: ids are unique.
TakeLists ==
  UNION { { l \in [1 .. n -> TakeSamples] :
              \A i, j \in 1 .. n : l[i].id = l[j].id => i = j }
          : n \in 0 .. MaxTakes }

\* setTakes(response.data); setIsLoading(false); the render recomputes the memo.
\* The answer is any of the lists above.
EmotionPerformance_Loaded ==
  /\ emotion.isLoading
  /\ \E list \in TakeLists :
       emotion' = [ takes              |-> list,
                    isLoading          |-> FALSE,
                    categorizedResults |-> Categorize(list) ]
  /\ UNCHANGED <<store, tasks, now, writer, dashboard, monitor>>

\* catch: console.error; finally setIsLoading(false)
EmotionPerformance_LoadFailed ==
  /\ emotion.isLoading
  /\ emotion' = [emotion EXCEPT !.isLoading = FALSE]
  /\ UNCHANGED <<store, tasks, now, writer, dashboard, monitor>>

EmotionNext ==
  \/ EmotionPerformance_Loaded
  \/ EmotionPerformance_LoadFailed

EmotionSpec == Init /\ [][EmotionNext]_vars

\* --------------------------------------------------------------------- C19
\* C19 as stated: reading an absent field as 0, false and 'neutral' and a
\* present one as its value, each category is the sub-list, in input order,
\* of the takes satisfying its predicate.
C19_Original ==
  LET markers(t) ==
        IF t.ai_metadata = Null THEN Null
        ELSE IF t.ai_metadata[1].audio = Null THEN Null
        ELSE t.ai_metadata[1].audio[1].behavioral_markers
      hesitation_duration(t) ==
        IF markers(t) = Null \/ markers(t)[1].hesitation_duration = Null
          THEN 0 ELSE markers(t)[1].hesitation_duration[1]
      laughter_detected(t) ==
        IF markers(t) = Null \/ markers(t)[1].laughter_detected = Null
          THEN FALSE ELSE markers(t)[1].laughter_detected[1]
      emo(t) ==
        IF t.ai_metadata = Null \/ t.ai_metadata[1].emotion = Null
          THEN "neutral" ELSE t.ai_metadata[1].emotion[1]
      Hesitation(t) == hesitation_duration(t) > 10
      Laughter(t)   == laughter_detected(t)
      Analytical(t) == emo(t) = "analytical"
      Peak(t)       == emo(t) \notin {"neutral", "unknown", "analytical"}
      Standard(t)   == /\ ~laughter_detected(t)
                       /\ hesitation_duration(t) <= 10
                       /\ emo(t) \in {"neutral", "unknown"}
      results == emotion.categorizedResults
  IN  /\ DOMAIN results = Categories
      /\ results["Hesitation & Pauses"]    = SelectSeq(emotion.takes, Hesitation)
      /\ results["Laughter & Humor"]       = SelectSeq(emotion.takes, Laughter)
      /\ results["Analytical & Technical"] = SelectSeq(emotion.takes, Analytical)
      /\ results["Emotional Peaks"]        = SelectSeq(emotion.takes, Peak)
      /\ results["Standard Dialogue"]      = SelectSeq(emotion.takes, Standard)

\* C19, amended: the same, with an absent or empty emotion read as
\* 'neutral' (and an absent or zero pause as 0, absent or false laughter as
\* false).
C19_Theorem ==
  LET markers(t) ==
        IF t.ai_metadata = Null THEN Null
        ELSE IF t.ai_metadata[1].audio = Null THEN Null
        ELSE t.ai_metadata[1].audio[1].behavioral_markers
      hesitation_duration(t) ==
        IF markers(t) = Null \/ markers(t)[1].hesitation_duration = Null
          THEN 0 ELSE markers(t)[1].hesitation_duration[1]
      laughter_detected(t) ==
        IF markers(t) = Null \/ markers(t)[1].laughter_detected = Null
          THEN FALSE ELSE markers(t)[1].laughter_detected[1]
      emo(t) ==
        IF t.ai_metadata = Null \/ t.ai_metadata[1].emotion \in {Null, Some("")}
          THEN "neutral" ELSE t.ai_metadata[1].emotion[1]
      Hesitation(t) == hesitation_duration(t) > 10
      Laughter(t)   == laughter_detected(t)
      Analytical(t) == emo(t) = "analytical"
      Peak(t)       == emo(t) \notin {"neutral", "unknown", "analytical"}
      Standard(t)   == /\ ~laughter_detected(t)
                       /\ hesitation_duration(t) <= 10
                       /\ emo(t) \in {"neutral", "unknown"}
      results == emotion.categorizedResults
  IN  /\ DOMAIN results = Categories
      /\ results["Hesitation & Pauses"]    = SelectSeq(emotion.takes, Hesitation)
      /\ results["Laughter & Humor"]       = SelectSeq(emotion.takes, Laughter)
      /\ results["Analytical & Technical"] = SelectSeq(emotion.takes, Analytical)
      /\ results["Emotional Peaks"]        = SelectSeq(emotion.takes, Peak)
      /\ results["Standard Dialogue"]      = SelectSeq(emotion.takes, Standard)

\* Two takes were categorized, an analytical one without pause or laughter
\* (in its own category only) after one with an empty emotion.
C19_Witness ==
  /\ ~emotion.isLoading
  /\ Len(emotion.takes) = 2
  /\ emotion.takes[1] = Take(2, Some(Meta(Some(""), Audio(Some(15), Some(TRUE)))))
  /\ emotion.takes[2] = Take(1, Some(Meta(Some("analytical"), Null)))
  /\ emotion.categorizedResults["Analytical & Technical"] = <<emotion.takes[2]>>
  /\ emotion.categorizedResults["Standard Dialogue"] = <<>>
  /\ emotion.categorizedResults["Hesitation & Pauses"] = <<emotion.takes[1]>>

\* --------------------------------------------------------------------- C20
\* C20: a take with hesitation_duration > 1.0, laughter absent or false and
\* emotion absent or 'neutral' is once in 'Hesitation & Pauses' and in no
\* other category.
C20_Theorem ==
  \A i \in 1 .. Len(emotion.takes) :
    LET t == emotion.takes[i]
        m == IF t.ai_metadata = Null THEN Null
             ELSE IF t.ai_metadata[1].audio = Null THEN Null
             ELSE t.ai_metadata[1].audio[1].behavioral_markers
        In(c) == {k \in 1 .. Len(emotion.categorizedResults[c]) :
                    emotion.categorizedResults[c][k] = t}
    IN  ( /\ m # Null
          /\ m[1].hesitation_duration # Null
          /\ m[1].hesitation_duration[1] > 10
          /\ m[1].laughter_detected \in {Null, Some(FALSE)}
          /\ t.ai_metadata[1].emotion \in {Null, Some("neutral")} )
        => /\ Cardinality(In("Hesitation & Pauses")) = 1
           /\ \A c \in Categories \ {"Hesitation & Pauses"} : In(c) = {}

\* The example of the claim, 1.5 / false / 'neutral', was categorized.
C20_Witness ==
  /\ ~emotion.isLoading
  /\ \E i \in 1 .. Len(emotion.takes) :
       /\ emotion.takes[i].ai_metadata = Some(Meta(Some("neutral"), Audio(Some(15), Some(FALSE))))
       /\ emotion.categorizedResults["Hesitation & Pauses"] = <<emotion.takes[i]>>


\* ================================================================ Dashboard
\* A state change of a page, its re-render and the effects of that render
\* are one step: a handler below runs up to the end of the effects it causes.

\* setInterval: a handle that no live timer has.
FreshHandle(timers) ==
  CHOOSE h \in 1 .. (Cardinality(timers) + 1) : \A x \in timers : x.id # h

\* The polling effect's cleanup: clearInterval(interval).  A run that
\* returned early (isPolling false) has no cleanup.
Dashboard_Cleanup(d) ==
  IF d.interval = Null
    THEN d
    ELSE [d EXCEPT !.timers = {x \in @ : x.id # d.interval[1]},
                   !.interval = Null]

\* The polling effect: if (!isPolling) return; setInterval(..., 3000).
Dashboard_PollingEffect(d) ==
  IF ~d.isPolling
    THEN d
    ELSE LET h == FreshHandle(d.timers)
         IN  [d EXCEPT !.timers = @ \cup {[id |-> h, every |-> DashboardInterval]},
                       !.interval = Some(h)]

Dashboard_setIsPolling_OnlyPauses(d, value) ==
  IF value = d.isPolling \/ value
    THEN d
    ELSE Dashboard_PollingEffect(Dashboard_Cleanup([d EXCEPT !.isPolling = value]))

\* setIsPolling(value): a changed value re-renders, and the polling effect,
\* which depends on isPolling, is cleaned up and run again.
Dashboard_setIsPolling(d, value) ==
  IF value = d.isPolling
    THEN d
    ELSE Dashboard_PollingEffect(Dashboard_Cleanup([d EXCEPT !.isPolling = value]))

\* Dashboard is rendered for the first time and its three effects run:
\* fetchProject(); fetchDashboardStats(); the polling effect; the listener.
\* The document is hidden or not; one page is shown in a behaviour.
Dashboard_Mount(hidden) ==
  /\ dashboard.phase = "unmounted"
  /\ monitor.phase = "unmounted"
  /\ tasks' = tasks \o << NewTask("fetchProject", 0),
                          NewTask("fetchDashboardStats", DefaultRetries) >>
  /\ store' = merge(merge(store, [loading |-> TRUE, error |-> Null]),
                    [loading |-> TRUE, error |-> Null])
  /\ writer' = Len(tasks) + 2
  /\ dashboard' = Dashboard_PollingEffect([dashboard EXCEPT !.phase = "mounted",
                                                            !.hidden = hidden])
  /\ UNCHANGED <<now, monitor, emotion>>

\* The interval timer's callback: fetchDashboardStats().
Dashboard_Tick ==
  /\ dashboard.timers # {}
  /\ dashboard.ticks < MaxTicks
  /\ tasks' = Append(tasks, NewTask("fetchDashboardStats", DefaultRetries))
  /\ set(Next_t, [loading |-> TRUE, error |-> Null])
  /\ dashboard' = [dashboard EXCEPT !.ticks = @ + 1]
  /\ UNCHANGED <<now, monitor, emotion>>

\* The Pause/Resume button: setIsPolling(!isPolling).
Dashboard_Toggle ==
  /\ dashboard.phase = "mounted"
  /\ dashboard' = [Dashboard_setIsPolling(dashboard, ~dashboard.isPolling)
                     EXCEPT !.paused = dashboard.isPolling]
  /\ UNCHANGED <<store, tasks, now, writer, monitor, emotion>>

\* The document becomes hidden or visible and Dashboard's listener runs:
\* setIsPolling(!document.hidden).
handleVisibilityChange ==
  /\ dashboard.phase = "mounted"
  /\ LET d == [dashboard EXCEPT !.hidden = ~@]
     IN  dashboard' = Dashboard_setIsPolling(d, ~d.hidden)
  /\ UNCHANGED <<store, tasks, now, writer, monitor, emotion>>

\* Dashboard is unmounted: the effects' cleanups run (clearInterval,
\* removeEventListener).
Dashboard_Unmount ==
  /\ dashboard.phase = "mounted"
  /\ dashboard' = [Dashboard_Cleanup(dashboard) EXCEPT !.phase = "gone",
                                                      !.paused = FALSE]
  /\ UNCHANGED <<store, tasks, now, writer, monitor, emotion>>


\* ================================================================ AIMonitor
\* A string is the sequence of its characters.
Digits == <<"0", "1", "2", "3", "4", "5", "6", "7", "8", "9">>
IsDigit(c) == \E i \in DOMAIN Digits : Digits[i] = c
DigitValue(c) == (CHOOSE i \in DOMAIN Digits : Digits[i] = c) - 1

\* The value of the longest prefix of digits of str, from acc; Null (NaN)
\* when seen is false at a character that is not a digit.
RECURSIVE ParseDigits(_, _, _)
ParseDigits(str, acc, seen) ==
  IF str = <<>> \/ ~IsDigit(Head(str))
    THEN IF seen THEN Some(acc) ELSE Null
    ELSE ParseDigits(Tail(str), 10 * acc + DigitValue(Head(str)), TRUE)

RECURSIVE TrimStart(_)
TrimStart(str) ==
  IF str # <<>> /\ Head(str) = " " THEN TrimStart(Tail(str)) ELSE str

\* parseInt(str): leading blanks are skipped, a sign is read, then digits up
\* to the first other character; NaN (Null) without a digit.
ParseInt(str) ==
  LET t == TrimStart(str)
      negative == t # <<>> /\ Head(t) = "-"
      signed   == t # <<>> /\ Head(t) \in {"-", "+"}
      n == ParseDigits(IF signed THEN Tail(t) ELSE t, 0, FALSE)
  IN  IF n = Null THEN Null ELSE Some(IF negative THEN 0 - n[1] ELSE n[1])

\* `${take.id}`: the decimal numeral of a take's id, as EmotionPerformance
\* writes it into the URL.
RECURSIVE Numeral(_)
Numeral(n) ==
  IF n < 10
    THEN << Digits[n + 1] >>
    ELSE Numeral(n \div 10) \o << Digits[(n % 10) + 1] >>

\* new URLSearchParams(window.location.search).get('takeId'): no parameter,
\* a take's id, an id followed by other text, and no number.
UrlTakeIds ==
  { Null, Some(<<"3">>), Some(<<"3", "x">>), Some(<<"x">>) }

\* The answers of api.media.listTakes(): an empty library; a take without
\* metadata before two with; two takes without any metadata key; and a
\* library in which take 2 has new metadata and take 3 is gone.
LibraryResponses ==
  { <<>>,
    << Take(1, Null), Take(2, Some(Meta(Some("happy"), Null))),
       Take(3, Some(Meta(Some("neutral"), Null))) >>,
    << Take(1, Some(EmptyObject)), Take(3, Null) >>,
    << Take(2, Some(Meta(Some("calm"), Audio(Some(15), Some(FALSE))))),
       Take(1, Some(Meta(Some("neutral"), Null))) >> }

\* list.find(...): the first element among those at the indices I, which
\* satisfy the test, or undefined (Null).
Find(list, I) ==
  IF I = {} THEN Null
  ELSE Some(list[CHOOSE i \in I : \A j \in I : i <= j])

\* selectedTake?.id, the dependency of both polling effects.
SelectedId(m) == IF m.selectedTake = Null THEN Null ELSE Some(m.selectedTake[1].id)

\* isMounted of the given run of the given effect.
IsMounted(m, effect, run) == <<effect, run>> \in m.live

\* The selection fetchTakes makes from a non-empty list: selected is the
\* selectedTake its closure holds (as its id), current the state's value.
Selection_IgnoresUrl(list, selected, urlTakeId, current) ==
  IF selected = Null
    THEN LET firstWithMeta ==
               Find(list, {i \in DOMAIN list :
                             /\ list[i].ai_metadata # Null
                             /\ Cardinality(ObjectKeys(list[i].ai_metadata[1])) > 0})
         IN  IF firstWithMeta # Null THEN firstWithMeta ELSE Some(list[1])
    ELSE LET updated == Find(list, {i \in DOMAIN list : list[i].id = selected[1]})
         IN  IF updated # Null THEN updated ELSE current

Selection_DropsMissing(list, selected, urlTakeId, current) ==
  IF selected = Null
    THEN LET wanted == IF urlTakeId = Null \/ urlTakeId = Some(<<>>)
                         THEN Null ELSE ParseInt(urlTakeId[1])
             fromUrl == Find(list, {i \in DOMAIN list :
                                      wanted # Null /\ list[i].id = wanted[1]})
             firstWithMeta ==
               Find(list, {i \in DOMAIN list :
                             /\ list[i].ai_metadata # Null
                             /\ Cardinality(ObjectKeys(list[i].ai_metadata[1])) > 0})
         IN  IF fromUrl # Null THEN fromUrl
             ELSE IF firstWithMeta # Null THEN firstWithMeta
             ELSE Some(list[1])
    ELSE Find(list, {i \in DOMAIN list : list[i].id = selected[1]})

Selection(list, selected, urlTakeId, current) ==
  IF selected = Null
    THEN LET wanted == IF urlTakeId = Null \/ urlTakeId = Some(<<>>)
                         THEN Null ELSE ParseInt(urlTakeId[1])
             fromUrl == Find(list, {i \in DOMAIN list :
                                      wanted # Null /\ list[i].id = wanted[1]})
             firstWithMeta ==
               Find(list, {i \in DOMAIN list :
                             /\ list[i].ai_metadata # Null
                             /\ Cardinality(ObjectKeys(list[i].ai_metadata[1])) > 0})
         IN  IF fromUrl # Null THEN fromUrl
             ELSE IF firstWithMeta # Null THEN firstWithMeta
             ELSE Some(list[1])
    ELSE LET updated == Find(list, {i \in DOMAIN list : list[i].id = selected[1]})
         IN  IF updated # Null THEN updated ELSE current


\* The cleanup of one effect run, c being what the run returned (Null: it
\* returned early): isMounted = false; clearInterval(interval).
CleanupRun_KeepsTimer(m, effect, c) ==
  IF c = Null
    THEN m
    ELSE [m EXCEPT !.live = @ \ {<<effect, c[1].run>>}]

CleanupRun(m, effect, c) ==
  IF c = Null
    THEN m
    ELSE [m EXCEPT !.live = @ \ {<<effect, c[1].run>>},
                   !.timers = {x \in @ : x.id # c[1].interval}]

\* The cleanups of both polling effects.
AIMonitor_Cleanup(m) ==
  [ CleanupRun(CleanupRun(m, "library", m.library), "status", m.status)
      EXCEPT !.library = Null, !.status = Null ]

\* Run k of the library effect: isMounted = true; fetchTakes();
\* setInterval(fetchTakes, 5000).  The closure holds the selection of the
\* render the effect belongs to.
LibraryEffect(m, k) ==
  LET h == FreshHandle(m.timers)
  IN  [m EXCEPT
         !.live    = @ \cup {<<"library", k>>},
         !.fetches = Append(@, [run |-> k, selected |-> SelectedId(m)]),
         !.listed  = @ + 1,
         !.timers  = @ \cup {[ id |-> h, every |-> LibraryInterval,
                               effect |-> "library", run |-> k,
                               selected |-> SelectedId(m) ]},
         !.library = Some([run |-> k, interval |-> h])]

\* Run k of the status effect: if (!selectedTake) return; isMounted = true;
\* pollStatus(), which sets isPolling and calls getProcessingStatus as
\* invocation t; setInterval(pollStatus, 3000).
StatusEffect(m, k, t) ==
  IF m.selectedTake = Null
    THEN m
    ELSE LET h == FreshHandle(m.timers)
         IN  [m EXCEPT
                !.live      = @ \cup {<<"status", k>>},
                !.isPolling = TRUE,
                !.polls     = @ \cup {[task |-> t, run |-> k]},
                !.timers    = @ \cup {[ id |-> h, every |-> StatusInterval,
                                        effect |-> "status", run |-> k,
                                        selected |-> SelectedId(m) ]},
                !.status    = Some([run |-> k, interval |-> h])]

\* Both effects run, in the order of the component's code.
RunEffects(m, t) ==
  LET k == m.runs + 1
  IN  StatusEffect(LibraryEffect([m EXCEPT !.runs = k], k), k, t)

\* The render after a state change from m to n: with selectedTake?.id
\* changed the effects are cleaned up and run again.
Render(m, n, t) ==
  IF SelectedId(n) = SelectedId(m) THEN n ELSE RunEffects(AIMonitor_Cleanup(n), t)

\* The invocations after that render: pollStatus of the status effect.
PollTasks(m, n) ==
  IF SelectedId(n) = SelectedId(m) \/ n.selectedTake = Null
    THEN tasks
    ELSE Append(tasks, NewTask("getProcessingStatus", n.selectedTake[1].id))

\* The requests AIMonitor has issued so far.
Requested == monitor.listed + Len(tasks)

\* The requests of the render after a change from m to n are within the
\* behaviour's bound.
CanRender(m, n) ==
  \/ SelectedId(n) = SelectedId(m)
  \/ Requested + (IF n.selectedTake = Null THEN 1 ELSE 2) <= MaxFetches

\* AIMonitor is rendered for the first time and its effects run.
AIMonitor_Mount(url) ==
  /\ monitor.phase = "unmounted"
  /\ dashboard.phase = "unmounted"
  /\ monitor' = RunEffects([monitor EXCEPT !.phase = "mounted", !.urlTakeId = url],
                           Next_t)
  /\ UNCHANGED <<store, tasks, now, writer, dashboard, emotion>>

RemoveAt(seq, i) == SubSeq(seq, 1, i - 1) \o SubSeq(seq, i + 1, Len(seq))

AIMonitor_ListResolved_ClearsOnEmpty(i, list) ==
  /\ i \in DOMAIN monitor.fetches
  /\ LET q == monitor.fetches[i]
         m == [monitor EXCEPT !.fetches = RemoveAt(@, i)]
         n == IF ~IsMounted(monitor, "library", q.run)
                THEN m
                ELSE [m EXCEPT
                        !.takes = list,
                        !.selectedTake =
                          IF Len(list) > 0
                            THEN Selection(list, q.selected, monitor.urlTakeId, @)
                            ELSE Null]
     IN  /\ CanRender(monitor, n)
         /\ monitor' = Render(monitor, n, Next_t)
         /\ tasks' = PollTasks(monitor, n)
  /\ UNCHANGED <<store, now, writer, dashboard, emotion>>

\* A listTakes request resolves: the rest of fetchTakes' try branch.
AIMonitor_ListResolved(i, list) ==
  /\ i \in DOMAIN monitor.fetches
  /\ LET q == monitor.fetches[i]
         m == [monitor EXCEPT !.fetches = RemoveAt(@, i)]
         n == IF ~IsMounted(monitor, "library", q.run)
                THEN m
                ELSE [m EXCEPT
                        !.takes = list,
                        !.selectedTake =
                          IF Len(list) > 0
                            THEN Selection(list, q.selected, monitor.urlTakeId, @)
                            ELSE @]
     IN  /\ CanRender(monitor, n)
         /\ monitor' = Render(monitor, n, Next_t)
         /\ tasks' = PollTasks(monitor, n)
  /\ UNCHANGED <<store, now, writer, dashboard, emotion>>

\* A listTakes request fails: console.error.
AIMonitor_ListFailed(i) ==
  /\ i \in DOMAIN monitor.fetches
  /\ monitor' = [monitor EXCEPT !.fetches = RemoveAt(@, i)]
  /\ UNCHANGED <<store, tasks, now, writer, dashboard, emotion>>

\* A take's button: setSelectedTake(take), for a take of another id.
AIMonitor_Select(j) ==
  /\ monitor.phase = "mounted"
  /\ j \in DOMAIN monitor.takes
  /\ SelectedId(monitor) # Some(monitor.takes[j].id)
  /\ LET n == [monitor EXCEPT !.selectedTake = Some(monitor.takes[j])]
     IN  /\ CanRender(monitor, n)
         /\ monitor' = Render(monitor, n, Next_t)
         /\ tasks' = PollTasks(monitor, n)
  /\ UNCHANGED <<store, now, writer, dashboard, emotion>>

\* The library timer's callback: fetchTakes of the run that set the timer.
AIMonitor_LibraryTick ==
  /\ Requested < MaxFetches
  /\ \E x \in monitor.timers :
       /\ x.effect = "library"
       /\ monitor' = [monitor EXCEPT
                        !.fetches = Append(@, [run |-> x.run, selected |-> x.selected]),
                        !.listed  = @ + 1]
  /\ UNCHANGED <<store, tasks, now, writer, dashboard, emotion>>

\* The status timer's callback: pollStatus of the run that set the timer.
AIMonitor_StatusTick ==
  /\ Requested < MaxFetches
  /\ \E x \in monitor.timers :
       /\ x.effect = "status"
       /\ tasks' = Append(tasks, NewTask("getProcessingStatus", x.selected[1]))
       /\ monitor' = [monitor EXCEPT
                        !.isPolling = TRUE,
                        !.polls = @ \cup {[task |-> Next_t, run |-> x.run]}]
  /\ UNCHANGED <<store, now, writer, dashboard, emotion>>

\* The rest of pollStatus once getProcessingStatus returned data (Null: it
\* returned null): if (isMounted && data) setStatusData(data); finally
\* if (isMounted) setIsPolling(false).
AfterPoll_Unguarded(m, t, data) ==
  LET p == CHOOSE p \in m.polls : p.task = t
  IN  IF IsMounted(m, "status", p.run)
        THEN [m EXCEPT !.statusData = IF data # Null THEN data ELSE @,
                       !.isPolling = FALSE]
        ELSE [m EXCEPT !.statusData = IF data # Null THEN data ELSE @]

AfterPoll(m, t, data) ==
  LET p == CHOOSE p \in m.polls : p.task = t
  IN  IF IsMounted(m, "status", p.run)
        THEN [m EXCEPT !.statusData = IF data # Null THEN data ELSE @,
                       !.isPolling = FALSE]
        ELSE m

AIMonitor_StatusResolved(t, response) ==
  /\ getProcessingStatus_Success(t, response)
  /\ \E p \in monitor.polls : p.task = t
  /\ monitor' = AfterPoll(monitor, t, Some(response.data))
  /\ UNCHANGED <<dashboard, emotion>>

AIMonitor_StatusFailed(t, err) ==
  /\ getProcessingStatus_Failure(t, err)
  /\ \E p \in monitor.polls : p.task = t
  /\ monitor' = AfterPoll(monitor, t, Null)
  /\ UNCHANGED <<dashboard, emotion>>

\* AIMonitor is unmounted: both effects' cleanups run.
AIMonitor_Unmount ==
  /\ monitor.phase = "mounted"
  /\ monitor' = [AIMonitor_Cleanup(monitor) EXCEPT !.phase = "gone"]
  /\ UNCHANGED <<store, tasks, now, writer, dashboard, emotion>>

\* What the requests of a page's behaviour are answered with: the pages do
\* not read the answers of the store's requests.
ViewFailures == { [isError |-> TRUE, message |-> "Network Error"] }
ViewProjectResponses ==
  { Envelope([ id |-> 1, name |-> "Pilot", description |-> Null,
               created_at |-> [date |-> "1/5/2024", time |-> "10:00"] ]) }

\* ==================================================== the pages as a system
\* One page is mounted in a behaviour; the store's actions are those the
\* page calls, continued by the store's own steps.  Dashboard first.
DashboardNext ==
  \/ \E hidden \in BOOLEAN : Dashboard_Mount(hidden)
  \/ Dashboard_Tick
  \/ Dashboard_Toggle
  \/ handleVisibilityChange
  \/ Dashboard_Unmount
  \/ \E t \in DOMAIN tasks, r \in ViewProjectResponses :
        fetchProject_Success(t, r) /\ UNCHANGED views
  \/ \E t \in DOMAIN tasks, e \in ViewFailures :
        fetchProject_Failure(t, e) /\ UNCHANGED views
  \/ \E t \in DOMAIN tasks, r \in StatsResponses, d \in ClockSteps :
        fetchDashboardStats_Success(t, r, now + d) /\ UNCHANGED views
  \/ \E t \in DOMAIN tasks, e \in ViewFailures :
        fetchDashboardStats_Failure(t, e) /\ UNCHANGED views
  \/ \E t \in DOMAIN tasks :
        fetchDashboardStats_Retry(t) /\ UNCHANGED views

DashboardSpec == Init /\ [][DashboardNext]_vars

AIMonitorNext ==
  \/ \E url \in UrlTakeIds : AIMonitor_Mount(url)
  \/ \E i \in DOMAIN monitor.fetches, list \in LibraryResponses :
        AIMonitor_ListResolved(i, list)
  \/ \E i \in DOMAIN monitor.fetches : AIMonitor_ListFailed(i)
  \/ \E j \in DOMAIN monitor.takes : AIMonitor_Select(j)
  \/ AIMonitor_LibraryTick
  \/ AIMonitor_StatusTick
  \/ \E t \in DOMAIN tasks : \E r \in StatusResponses(tasks[t].arg) :
        AIMonitor_StatusResolved(t, r)
  \/ \E t \in DOMAIN tasks, e \in ViewFailures : AIMonitor_StatusFailed(t, e)
  \/ AIMonitor_Unmount

AIMonitorSpec == Init /\ [][AIMonitorNext]_vars

\* Either page.
ViewNext == DashboardNext \/ AIMonitorNext

ViewSpec == Init /\ [][ViewNext]_vars


\* --------------------------------------------------------------------- C14
\* C14 as stated: a refreshed non-empty list arriving at a mounted AIMonitor
\* with no take selected selects the take whose id, written as a numeral,
\* is the URL's takeId, if there is one; else the first take whose
\* ai_metadata has a key; else the first take.
C14_Original ==
  [][ \A i \in DOMAIN monitor.fetches, list \in LibraryResponses :
        ( /\ AIMonitor_ListResolved(i, list)
          /\ IsMounted(monitor, "library", monitor.fetches[i].run)
          /\ monitor.selectedTake = Null
          /\ list # <<>> )
        => LET fromUrl  == {k \in 1 .. Len(list) :
                              monitor.urlTakeId = Some(Numeral(list[k].id))}
               withMeta == {k \in 1 .. Len(list) :
                              /\ list[k].ai_metadata # Null
                              /\ \E key \in DOMAIN list[k].ai_metadata[1] :
                                   list[k].ai_metadata[1][key] # Null}
               first(K) == CHOOSE k \in K : \A j \in K : k <= j
           IN  monitor'.selectedTake =
                 Some(list[IF fromUrl # {} THEN first(fromUrl)
                           ELSE IF withMeta # {} THEN first(withMeta)
                           ELSE 1])
    ]_vars

\* C14, amended: the same, the URL's takeId being read by parseInt: the take
\* selected from the URL is the one whose id is the integer at the start of
\* the parameter.
C14_Theorem ==
  [][ \A i \in DOMAIN monitor.fetches, list \in LibraryResponses :
        ( /\ AIMonitor_ListResolved(i, list)
          /\ IsMounted(monitor, "library", monitor.fetches[i].run)
          /\ monitor.selectedTake = Null
          /\ list # <<>> )
        => LET fromUrl  == {k \in 1 .. Len(list) :
                              /\ monitor.urlTakeId # Null
                              /\ ParseInt(monitor.urlTakeId[1]) = Some(list[k].id)}
               withMeta == {k \in 1 .. Len(list) :
                              /\ list[k].ai_metadata # Null
                              /\ \E key \in DOMAIN list[k].ai_metadata[1] :
                                   list[k].ai_metadata[1][key] # Null}
               first(K) == CHOOSE k \in K : \A j \in K : k <= j
           IN  monitor'.selectedTake =
                 Some(list[IF fromUrl # {} THEN first(fromUrl)
                           ELSE IF withMeta # {} THEN first(withMeta)
                           ELSE 1])
    ]_vars

\* Take 3 was selected from the URL "3x" although take 2, before it in the
\* list, has metadata.
C14_Witness ==
  /\ monitor.phase = "mounted"
  /\ monitor.urlTakeId = Some(<<"3", "x">>)
  /\ Len(monitor.takes) = 3
  /\ monitor.takes[2].ai_metadata # Null
  /\ monitor.selectedTake = Some(monitor.takes[3])
  /\ monitor.runs = 2

\* --------------------------------------------------------------------- C15
\* C15: a refreshed list arriving at a mounted AIMonitor with a take
\* selected makes the selection the list's take of the same id, if there is
\* one, and leaves it as it is otherwise, the empty list included.
C15_Theorem ==
  [][ \A i \in DOMAIN monitor.fetches, list \in LibraryResponses :
        ( /\ AIMonitor_ListResolved(i, list)
          /\ IsMounted(monitor, "library", monitor.fetches[i].run)
          /\ monitor.selectedTake # Null )
        => LET same == {k \in 1 .. Len(list) :
                          list[k].id = monitor.selectedTake[1].id}
           IN  /\ monitor'.takes = list
               /\ IF same = {}
                    THEN monitor'.selectedTake = monitor.selectedTake
                    ELSE \E k \in same :
                           /\ monitor'.selectedTake = Some(list[k])
                           /\ \A j \in same : k <= j
    ]_vars

\* The selected take 2 is kept, as the stale copy, after a list without it.
C15_Witness ==
  /\ monitor.phase = "mounted"
  /\ monitor.selectedTake = Some(Take(2, Some(Meta(Some("happy"), Null))))
  /\ monitor.takes = << Take(1, Some(EmptyObject)), Take(3, Null) >>


\* --------------------------------------------------------------------- C16
\* C16: a page has at most one live timer per polled resource: Dashboard
\* exactly one, of 3000, while it is mounted and isPolling, else none;
\* AIMonitor exactly one library timer, of 5000, while it is mounted, and
\* exactly one status timer, of 3000 and for the selected take, while it is
\* mounted with a take selected, else none.
C16_Theorem ==
  LET library == {x \in monitor.timers : x.effect = "library"}
      status  == {x \in monitor.timers : x.effect = "status"}
  IN  /\ Cardinality(dashboard.timers) =
           IF dashboard.phase = "mounted" /\ dashboard.isPolling THEN 1 ELSE 0
      /\ \A x \in dashboard.timers : x.every = 3000
      /\ Cardinality(library) = IF monitor.phase = "mounted" THEN 1 ELSE 0
      /\ \A x \in library : x.every = 5000
      /\ Cardinality(status) =
           IF monitor.phase = "mounted" /\ monitor.selectedTake # Null THEN 1 ELSE 0
      /\ \A x \in status : x.every = 3000 /\ x.selected = SelectedId(monitor)
      /\ monitor.timers = library \cup status

\* The selected take's id has changed twice, the second time by a click,
\* and there is one timer of each kind.
C16_Witness ==
  /\ monitor.phase = "mounted"
  /\ monitor.runs = 3
  /\ monitor.selectedTake # Null
  /\ Cardinality({x \in monitor.timers : x.effect = "library"}) = 1
  /\ Cardinality({x \in monitor.timers : x.effect = "status"}) = 1


\* --------------------------------------------------------------------- C13
\* C13: once a page is unmounted nothing it started changes any state: no
\* request is issued, and neither the store nor the page's own state is
\* written.
C13_Original ==
  [][ (dashboard.phase = "gone" \/ monitor.phase = "gone") =>
        /\ store' = store
        /\ dashboard' = dashboard
        /\ monitor'.takes = monitor.takes
        /\ monitor'.selectedTake = monitor.selectedTake
        /\ monitor'.statusData = monitor.statusData
        /\ monitor'.isPolling = monitor.isPolling
        /\ monitor'.listed = monitor.listed
        /\ \A t \in DOMAIN tasks' : ~Started(t)
    ]_vars

\* --------------------------------------------------------------------- C17
\* C17: every step that activates a polling effect (sets its timer) issues
\* a fetch of the effect's resource in that same step: Dashboard's stats,
\* AIMonitor's take list, and the status of AIMonitor's selected take.
C17_Original ==
  [][ /\ (dashboard'.interval # Null /\ dashboard.interval = Null) =>
           \E t \in DOMAIN tasks' :
             Started(t) /\ tasks'[t].op = "fetchDashboardStats"
      /\ (monitor'.library # Null /\ monitor'.library # monitor.library) =>
           /\ monitor'.listed = monitor.listed + 1
           /\ \E i \in DOMAIN monitor'.fetches :
                /\ monitor'.fetches[i].run = monitor'.library[1].run
                /\ monitor'.fetches[i].selected = SelectedId(monitor')
      /\ (monitor'.status # Null /\ monitor'.status # monitor.status) =>
           \E t \in DOMAIN tasks' :
             /\ Started(t)
             /\ tasks'[t].op = "getProcessingStatus"
             /\ Some(tasks'[t].arg) = SelectedId(monitor')
    ]_vars

\* --------------------------------------------------------------------- C18
\* C18: while Dashboard's isPolling is false the page starts no
\* fetchDashboardStats; the step that makes it true starts one; and no
\* step that changes isPolling changes dashboardStats, lastUpdated or the
\* project's fields.
C18_Original ==
  [][ /\ (~dashboard.isPolling /\ ~dashboard'.isPolling) =>
           Len(tasks') = Len(tasks)
      /\ (~dashboard.isPolling /\ dashboard'.isPolling) =>
           \E t \in DOMAIN tasks' :
             /\ t \notin DOMAIN tasks
             /\ tasks'[t].op = "fetchDashboardStats"
      /\ (dashboard'.isPolling # dashboard.isPolling) =>
           \A f \in {"dashboardStats", "lastUpdated", "projectId", "projectName",
                     "description", "shootDate", "cameras", "totalFootage"} :
             store'[f] = store[f]
    ]_vars


C30_Theorem ==
  LET In(t, c) == \E k \in 1 .. Len(emotion.categorizedResults[c]) :
                    emotion.categorizedResults[c][k] = t
  IN  \A i \in 1 .. Len(emotion.takes) :
        LET t == emotion.takes[i]
        IN  /\ \E c \in Categories : In(t, c)
            /\ In(t, "Standard Dialogue") =>
                 \A c \in Categories \ {"Standard Dialogue"} : ~In(t, c)

\* A take without metadata (Standard Dialogue only) and an analytical one
\* without pause or laughter (Analytical & Technical only) were categorized.
C30_Witness ==
  /\ ~emotion.isLoading
  /\ emotion.takes = << Take(1, Null), Take(2, Some(Meta(Some("analytical"), Null))) >>
  /\ emotion.categorizedResults["Standard Dialogue"] = << Take(1, Null) >>
  /\ emotion.categorizedResults["Analytical & Technical"] = << emotion.takes[2] >>


\* --------------------------------------------------------------------- C22
\* C22 as stated: a successful fetchProject replaces the whole Project: the
\* id, name, description and shoot date are those of the response, and
\* neither the camera list nor the total footage is still the initial one.
C22_Original ==
  [][ \A t \in DOMAIN tasks :
        (Succeeded(t) /\ IsOp(t, "fetchProject")) =>
          /\ \E r \in ProjectResponses :
               /\ store'.projectId   = Some(r.data.id)
               /\ store'.projectName = r.data.name
               /\ store'.description = DescriptionOf(r.data)
               /\ store'.shootDate   = LocaleDateString(r.data.created_at)
          /\ store'.cameras      # InitialState.cameras
          /\ store'.totalFootage # InitialState.totalFootage ]_vars


\* --------------------------------------------------------------------- C23
\* The invocations that write loading and error, and the step in which t
\* is the last of two or more of them to resolve.
LoadingTasks == { t \in DOMAIN tasks : tasks[t].op \in LoadingOps }

ResolvesLast(t) ==
  /\ t \in LoadingTasks
  /\ Succeeded(t) \/ FailedFinally(t)
  /\ LoadingTasks # {t}
  /\ \A u \in LoadingTasks \ {t} : tasks[u].pc = "done"

StatsNext ==
  \/ \E r \in RetryArgs : fetchDashboardStats_Call(r) /\ UNCHANGED views
  \/ \E t \in Calls, r \in StatsResponses, d \in ClockSteps :
        fetchDashboardStats_Success(t, r, now + d)
        /\ UNCHANGED views
  \/ \E t \in Calls, e \in Failures : fetchDashboardStats_Failure(t, e) /\ UNCHANGED views
  \/ \E t \in Calls : fetchDashboardStats_Retry(t) /\ UNCHANGED views

Settled(t) ==
  \/ \E r \in StatsResponses, d \in ClockSteps :
        fetchDashboardStats_Success(t, r, now + d) /\ UNCHANGED views
  \/ \E e \in Failures : fetchDashboardStats_Failure(t, e) /\ UNCHANGED views

StatsSpec ==
  /\ Init
  /\ [][StatsNext]_vars
  /\ \A t \in Calls :
       /\ WF_vars(Settled(t))
       /\ WF_vars(fetchDashboardStats_Retry(t) /\ UNCHANGED views)

Max(a, b) == IF a >= b THEN a ELSE b

\* C24: every call fetchDashboardStats(r), r any integer, ends: it issues
\* at most max(r, 0) + 1 requests, its last step sets loading = false, and
\* with r < 0 as with r = 0 the first failure ends it, without a wait, with
\* the fixed message.
C24_Theorem ==
  /\ [](\A t \in DOMAIN tasks :
          /\ tasks[t].attempts <= Max(tasks[t].arg, 0) + 1
          /\ tasks[t].delays <= Max(tasks[t].arg, 0)
          /\ tasks[t].arg <= 0 => (tasks[t].attempts = 1 /\ tasks[t].pc # "delay"))
  /\ [][ \A t \in DOMAIN tasks :
           /\ (tasks[t].pc # "done" /\ tasks'[t].pc = "done") =>
                (store'.loading = FALSE /\ writer' = t)
           /\ (Failed(t) /\ tasks[t].arg <= 0) =>
                (FailedFinally(t) /\ store'.error = Some(ExhaustedMessage))
       ]_vars
  /\ \A t \in Calls : (t \in DOMAIN tasks) ~> (t \in DOMAIN tasks /\ tasks[t].pc = "done")

\* fetchDashboardStats(-1) has ended by the failure of its only request,
\* and a fetchDashboardStats(3) by the failure of its fourth.
C24_Witness ==
  \E t, u \in DOMAIN tasks :
    /\ tasks[t].arg = -1 /\ HasFailed(t) /\ tasks[t].attempts = 1 /\ tasks[t].delays = 0
    /\ tasks[u].arg = DefaultRetries /\ HasFailed(u) /\ tasks[u].attempts = DefaultRetries + 1
    /\ ~store.loading /\ store.error = Some(ExhaustedMessage)


\* --------------------------------------------------------------------- C25
\* C25: a running timer can tick whatever is in flight, and each tick
\* starts a new fetchDashboardStats and leaves the earlier invocations as
\* they are; every stats request that succeeds stores its response and the
\* time of its resolution, also when a call made after it has succeeded
\* before.
C25_Theorem ==
  /\ []((dashboard.timers # {} /\ dashboard.ticks < MaxTicks) => ENABLED Dashboard_Tick)
  /\ [][ /\ dashboard'.ticks # dashboard.ticks =>
              /\ Len(tasks') = Len(tasks) + 1
              /\ \A t \in DOMAIN tasks : tasks'[t] = tasks[t]
              /\ tasks'[Len(tasks')].op = "fetchDashboardStats"
              /\ Started(Len(tasks'))
         /\ \A t \in DOMAIN tasks :
              (IsOp(t, "fetchDashboardStats") /\ Succeeded(t)) =>
                /\ store'.lastUpdated = Some(now')
                /\ \E r \in StatsResponses :
                     /\ fetchDashboardStats_Success(t, r, now')
                     /\ store'.dashboardStats = Some(r.data)
       ]_vars

\* The mount's stats request, its first, succeeded after the tick's did:
\* the store has what the older request brought.
C25_Witness ==
  \E t, u \in DOMAIN tasks :
    /\ t < u /\ dashboard.ticks = 1
    /\ IsOp(t, "fetchDashboardStats") /\ HasSucceeded(t) /\ tasks[t].attempts = 1
    /\ IsOp(u, "fetchDashboardStats") /\ HasSucceeded(u)
    /\ writer = t
    /\ store.dashboardStats = Some("statsA")
    /\ store.lastUpdated = Some(2)

\* --------------------------------------------------------------------- C26
\* C26: while Dashboard's polling is paused or the page is gone there is no
\* timer, and a fetchDashboardStats in flight goes on: after a wait the
\* retry is issued (loading = true, error = null), and a request can
\* succeed (dashboardStats, lastUpdated, loading written) or fail (the next
\* wait, or error and loading written).
C26_Theorem ==
  (dashboard.phase = "gone" \/ (dashboard.phase = "mounted" /\ ~dashboard.isPolling)) =>
    /\ dashboard.timers = {} /\ dashboard.interval = Null
    /\ \A t \in DOMAIN tasks :
         /\ (IsOp(t, "fetchDashboardStats") /\ tasks[t].pc = "delay") =>
              ENABLED ( /\ fetchDashboardStats_Retry(t) /\ UNCHANGED views
                        /\ store'.loading /\ store'.error = Null
                        /\ tasks'[t].attempts = tasks[t].attempts + 1 )
         /\ Awaiting(t, "fetchDashboardStats") =>
              /\ ENABLED ( \E r \in StatsResponses :
                             /\ fetchDashboardStats_Success(t, r, now + 1)
                             /\ UNCHANGED views
                             /\ store'.dashboardStats = Some(r.data)
                             /\ store'.lastUpdated = Some(now + 1)
                             /\ ~store'.loading )
              /\ ENABLED ( \E e \in ViewFailures :
                             /\ fetchDashboardStats_Failure(t, e)
                             /\ UNCHANGED views
                             /\ IF tasks[t].retries > 0
                                  THEN tasks'[t].pc = "delay"
                                  ELSE /\ store'.error = Some(ExhaustedMessage)
                                       /\ ~store'.loading )

\* Dashboard is gone and the mount's fetchDashboardStats has issued its
\* fourth request.
C26_Witness ==
  /\ dashboard.phase = "gone"
  /\ \E t \in DOMAIN tasks :
       /\ IsOp(t, "fetchDashboardStats") /\ tasks[t].pc = "awaiting"
       /\ tasks[t].attempts = DefaultRetries + 1
       /\ writer = t /\ store.loading

\* --------------------------------------------------------------------- C27
\* C27: after every visibilitychange event on a mounted Dashboard
\* isPolling = (document not hidden), whatever it was before; if the
\* document is visible the timer runs, set anew when polling was paused,
\* and if it is hidden there is none.
C27_Theorem ==
  [][ (dashboard.phase = "mounted" /\ dashboard'.hidden # dashboard.hidden) =>
        /\ dashboard'.isPolling = ~dashboard'.hidden
        /\ IF dashboard'.hidden
             THEN dashboard'.timers = {} /\ dashboard'.interval = Null
             ELSE /\ dashboard'.interval # Null
                  /\ dashboard'.timers =
                       {[id |-> dashboard'.interval[1], every |-> DashboardInterval]}
        /\ UNCHANGED <<store, tasks>>
    ]_vars

\* The button's last press paused polling, and a visibilitychange event
\* that found the document visible has set the timer again.
C27_Witness ==
  /\ dashboard.phase = "mounted"
  /\ dashboard.paused
  /\ dashboard.isPolling /\ ~dashboard.hidden
  /\ dashboard.interval # Null /\ dashboard.timers # {}


\* --------------------------------------------------------------------- C28
\* C28: no step of AIMonitor makes a selectedTake that is not null null.
C28_Theorem ==
  [][ monitor.selectedTake # Null => monitor'.selectedTake # Null ]_vars

\* With take 2 selected the empty list has arrived, and a status query of
\* take 2 has failed.
C28_Witness ==
  /\ monitor.phase = "mounted"
  /\ monitor.selectedTake # Null /\ monitor.selectedTake[1].id = 2
  /\ monitor.takes = <<>>
  /\ \E t \in DOMAIN tasks :
       IsOp(t, "getProcessingStatus") /\ tasks[t].arg = 2 /\ HasFailed(t)

\* --------------------------------------------------------------------- C29
\* C29: statusData changes only in a step in which getProcessingStatus
\* returns data that is not null to a pollStatus whose effect run is still
\* active, and becomes that data; a step that changes the selected take,
\* and one in which a status query fails, leave statusData as it is.
C29_Theorem ==
  [][ /\ monitor'.statusData # monitor.statusData =>
           \E t \in DOMAIN tasks :
             /\ IsOp(t, "getProcessingStatus") /\ Succeeded(t)
             /\ tasks'[t].ret # Null
             /\ monitor'.statusData = tasks'[t].ret
             /\ \E p \in monitor.polls :
                  p.task = t /\ IsMounted(monitor, "status", p.run)
      /\ SelectedId(monitor') # SelectedId(monitor) =>
           monitor'.statusData = monitor.statusData
      /\ \A t \in DOMAIN tasks :
           (IsOp(t, "getProcessingStatus") /\ Failed(t)) =>
             monitor'.statusData = monitor.statusData
    ]_vars

\* Take 2 is selected, its status query has failed, none of it succeeded,
\* and statusData is the status of take 1.
C29_Witness ==
  /\ monitor.phase = "mounted"
  /\ monitor.selectedTake # Null /\ monitor.selectedTake[1].id = 2
  /\ monitor.statusData # Null /\ monitor.statusData[1].take = 1
  /\ \E t \in DOMAIN tasks : tasks[t].arg = 2 /\ HasFailed(t)
  /\ \A t \in DOMAIN tasks : tasks[t].arg = 2 => ~HasSucceeded(t)

=============================================================================
